---- MODULE Spec2Model ----
(***************************************************************************)
(* The Dynamic Token List data source provider of apl-core-library: lists  *)
(* that grow at two frontiers through fetch events answered by the host    *)
(* with processUpdate, with per-request deadline timers and retries.       *)
(* The provider's implementation is not among the sources; its observable  *)
(* behaviour is taken from unit/datasource/unittest_dynamictokenlist.cpp   *)
(* and, where the tests are silent, from the specification's sections 3-7. *)
(***************************************************************************)
EXTENDS Integers, Sequences, FiniteSets, TLC

VARIABLES
    live,       \* the listIds of the ListStates that exist
    lists,      \* listId -> ListState
    pending,    \* the PendingRequest table
    nextCorr,   \* the next correlation token the provider hands out
    errors,     \* the provider's queue of pending errors (reasons)
    clock,      \* the loop's logical time; only SpecClock observes it, Spec keeps
                \* the timers relative to their deadlines
    events,     \* every DataSourceFetchRequest event emitted so far, in order
    last        \* what the last host call or callback was and what it did

vars == <<live, lists, pending, nextCorr, errors, events, clock, last>>

-----------------------------------------------------------------------------
(* Configuration and bounds *)

FetchTimeout == 100
FetchRetries == 2
FirstCorrelationToken == 101
BadCorrelationToken == 76
ItemHeight == 100

CacheChunkSize == 3
SeedSize == 2
PageSize == 2
MaxCorr == 103
TimeStep == 50
MaxTime == 300

ListIds == {"L1"}
AllListIds == {"L1", "L2"}
OtherListId == "other"
NoList == "none"
NoCorr == -1
NoToken == ""

Forward == "F"
Backward == "B"
Dirs == {Forward, Backward}

SeedPageToken == "P"
ForwardSeedToken == "F0"
BackwardSeedToken == "B0"
NextToken == [t \in {"F0", "F1", "B0"} |->
                 CASE t = "F0" -> "F1" [] t = "F1" -> "F2" [] t = "B0" -> "B1"]
PageTokens == {"F0", "F1", "B0"}

INTERNAL_ERROR == "INTERNAL_ERROR"
INVALID_LIST_ID == "INVALID_LIST_ID"
INCONSISTENT_LIST_ID == "INCONSISTENT_LIST_ID"
MISSING_LIST_ITEMS == "MISSING_LIST_ITEMS"
LOAD_TIMEOUT == "LOAD_TIMEOUT"

-----------------------------------------------------------------------------
(* Data *)

\* The items of a page: the host's payload for page token t, k items.
PageItems(t, k) == [i \in 1..k |-> <<t, i>>]

\* The documents of the tests by the sentinels their Sequence declares.
Document(f, l) == [first |-> f, last |-> l]
BASIC == Document(FALSE, FALSE)
FIRST_AND_LAST == Document(TRUE, TRUE)
FIRST == Document(TRUE, FALSE)
LAST == Document(FALSE, TRUE)
Documents == {BASIC, FIRST_AND_LAST, FIRST, LAST}

\* The children the component builds for firstItem and lastItem.
FirstItem == <<"fi", 0>>
LastItem == <<"li", 0>>
FirstItems(doc) == IF doc.first THEN <<FirstItem>> ELSE <<>>
LastItems(doc) == IF doc.last THEN <<LastItem>> ELSE <<>>

EmptyList == [items |-> <<>>, baseIndex |-> 0, fwd |-> NoToken, bwd |-> NoToken,
              view |-> 0, abandoned |-> {}, doc |-> BASIC, children |-> <<>>,
              scroll |-> 0]

\* The seeds of the document's data: items and both frontier tokens, no items
\* and both tokens, items and one token, and a seed without its pageToken.
Seed(ok, n, fwd, bwd) == [ok |-> ok, n |-> n, fwd |-> fwd, bwd |-> bwd]
DATA == Seed(TRUE, SeedSize, ForwardSeedToken, BackwardSeedToken)
EMPTY == Seed(TRUE, 0, ForwardSeedToken, BackwardSeedToken)
SMALLER_DATA == Seed(TRUE, SeedSize, ForwardSeedToken, NoToken)
SMALLER_DATA_BACK == Seed(TRUE, SeedSize, NoToken, BackwardSeedToken)
WRONG_MISSING_FIELDS_DATA == Seed(FALSE, SeedSize, NoToken, NoToken)
\* The pager's seed: both frontier tokens and more items than a cache chunk.
BASIC_PAGER_DATA == Seed(TRUE, CacheChunkSize + 1, ForwardSeedToken, BackwardSeedToken)
\* A seed without its pageToken that carries items and both frontier tokens.
WRONG_MISSING_FIELDS_TOKENS == Seed(FALSE, SeedSize, ForwardSeedToken, BackwardSeedToken)
Seeds == {DATA, EMPTY, SMALLER_DATA, SMALLER_DATA_BACK, WRONG_MISSING_FIELDS_DATA,
          WRONG_MISSING_FIELDS_TOKENS}

\* The update envelopes the host may pass to processUpdate.
Envelopes == {e \in [listId : ListIds \cup {OtherListId},
                     corr : {NoCorr, BadCorrelationToken}
                            \cup (FirstCorrelationToken..MaxCorr),
                     pageToken : PageTokens \cup {SeedPageToken},
                     next : BOOLEAN,
                     k : {0, PageSize}] : e.k = 0 => ~e.next}

FrontierToken(ls, d) == IF d = Forward THEN ls.fwd ELSE ls.bwd

PendingOf(pend, L, d) == {p \in pend : p.listId = L /\ p.dir = d}

-----------------------------------------------------------------------------
(* The scheduler *)

\* A fetch: a PendingRequest with a fresh correlation token and a timer of
\* fetchTimeout, and the fetch event. st is [pending, nextCorr, events].
\* Variant: the fetch event names the seed's token of the direction, whatever
\* the frontier's token has become.
SendFetchRequestSeedToken(st, L, d, tok, retries) ==
    [pending  |-> st.pending \cup {[corr |-> st.nextCorr, listId |-> L, dir |-> d,
                                   token |-> tok, retries |-> retries,
                                   remaining |-> FetchTimeout, sentAt |-> clock]},
     nextCorr |-> st.nextCorr + 1,
     events   |-> Append(st.events,
                         [listId |-> L, corr |-> st.nextCorr,
                          pageToken |-> IF d = Forward THEN "F0" ELSE "B0"])]

SendFetchRequest(st, L, d, tok, retries) ==
    [pending  |-> st.pending \cup {[corr |-> st.nextCorr, listId |-> L, dir |-> d,
                                   token |-> tok, retries |-> retries,
                                   remaining |-> FetchTimeout, sentAt |-> clock]},
     nextCorr |-> st.nextCorr + 1,
     events   |-> Append(st.events,
                         [listId |-> L, corr |-> st.nextCorr, pageToken |-> tok])]

\* The near-end condition for the item at relative position idx.
NearEnd(ls, d, idx) ==
    IF d = Forward THEN Len(ls.items) - idx < CacheChunkSize
                   ELSE idx < CacheChunkSize

\* Variant: a frontier without token is fetched like any other.
CanFetchClosedFrontier(st, ls, L, d) ==
    /\ d \notin ls.abandoned
    /\ PendingOf(st.pending, L, d) = {}

\* A frontier can be fetched when it has a token, was not given up and has
\* no request outstanding.
\* Variant: a frontier that was given up is fetched again like any open one.
CanFetchAfterAbandon(st, ls, L, d) ==
    /\ FrontierToken(ls, d) # NoToken
    /\ PendingOf(st.pending, L, d) = {}

\* Variant: a list has one request in flight at a time, whatever its direction.
CanFetchOneAtATime(st, ls, L, d) ==
    /\ FrontierToken(ls, d) # NoToken
    /\ d \notin ls.abandoned
    /\ {p \in st.pending : p.listId = L} = {}

CanFetch(st, ls, L, d) ==
    /\ FrontierToken(ls, d) # NoToken
    /\ d \notin ls.abandoned
    /\ PendingOf(st.pending, L, d) = {}

\* Variant: the scheduler fetches at an open frontier wherever the viewport is.
EnsureAnywhere(st, ls, L, d) ==
    IF Len(ls.items) > 0 /\ CanFetch(st, ls, L, d)
    THEN SendFetchRequest(st, L, d, FrontierToken(ls, d), 0)
    ELSE st

\* The scheduler's evaluation for one frontier as the item at ls.view is laid out.
Ensure(st, ls, L, d) ==
    IF Len(ls.items) > 0 /\ CanFetch(st, ls, L, d) /\ NearEnd(ls, d, ls.view)
    THEN SendFetchRequest(st, L, d, FrontierToken(ls, d), 0)
    ELSE st

EnsureBoth(st, ls, L) == Ensure(Ensure(st, ls, L, Forward), ls, L, Backward)

\* Variant: a list that was just created fetches at every frontier that has
\* a token, wherever its items end.
InitialFetchByTokens(st, ls, L) ==
    LET first == IF ls.fwd # NoToken
                 THEN SendFetchRequest(st, L, Forward, ls.fwd, 0)
                 ELSE st
    IN  IF ls.bwd # NoToken
        THEN SendFetchRequest(first, L, Backward, ls.bwd, 0)
        ELSE first

\* The fetches of a list that was just created: of a list without items the
\* forward page at once, of a list with items what the layout of its first
\* item asks for.
InitialFetch(st, ls, L) ==
    IF Len(ls.items) = 0
    THEN IF ls.fwd # NoToken
         THEN SendFetchRequest(st, L, Forward, ls.fwd, 0)
         ELSE st
    ELSE EnsureBoth(st, ls, L)

-----------------------------------------------------------------------------
(* Retries *)

\* Variant: a request is retried however often it failed.
CanRetryAlways(req) == TRUE

CanRetry(req) == req.retries < FetchRetries

\* Variant: the retry goes out under the correlation token of the failed attempt.
RetryWithSameCorrelationToken(st, req) ==
    LET without == [st EXCEPT !.pending = st.pending \ {req}]
    IN  IF CanRetry(req)
        THEN [without EXCEPT
                 !.pending = @ \cup {[req EXCEPT !.retries = @ + 1,
                                                 !.remaining = FetchTimeout]},
                 !.events = Append(@, [listId |-> req.listId, corr |-> req.corr,
                                       pageToken |-> req.token])]
        ELSE without

\* Variant: the retry runs on what is left of the failed attempt's deadline.
RetryWithinOldDeadline(st, req) ==
    LET without == [st EXCEPT !.pending = st.pending \ {req}]
        sent == SendFetchRequest(without, req.listId, req.dir, req.token, req.retries + 1)
    IN  IF CanRetry(req)
        THEN [sent EXCEPT !.pending =
                 {IF p.corr = st.nextCorr THEN [p EXCEPT !.remaining = req.remaining] ELSE p
                    : p \in sent.pending}]
        ELSE without

\* Variant: the failed request stays in the table next to its retry.
RetryKeepsFailedRequest(st, req) ==
    IF CanRetry(req)
    THEN SendFetchRequest(st, req.listId, req.dir, req.token, req.retries + 1)
    ELSE [st EXCEPT !.pending = st.pending \ {req}]

\* A failed attempt of req: the request is withdrawn and, within the budget,
\* sent again with a new correlation token and the same page token.
RetryFetchRequest(st, req) ==
    LET without == [st EXCEPT !.pending = st.pending \ {req}]
    IN  IF CanRetry(req)
        THEN SendFetchRequest(without, req.listId, req.dir, req.token, req.retries + 1)
        ELSE without

\* Variant: giving a frontier up closes it, as a page without nextPageToken does.
AbandonClosesFrontier(lss, req) ==
    IF CanRetry(req) THEN lss
    ELSE IF req.dir = Forward
    THEN [lss EXCEPT ![req.listId].fwd = NoToken, ![req.listId].abandoned = @ \cup {Forward}]
    ELSE [lss EXCEPT ![req.listId].bwd = NoToken, ![req.listId].abandoned = @ \cup {Backward}]

Abandon(lss, req) ==
    IF CanRetry(req) THEN lss
    ELSE [lss EXCEPT ![req.listId].abandoned = @ \cup {req.dir}]

\* Variants: the last attempt is reported like the ones before it.
EmptyItemsErrorsAlwaysMissing(req) == <<MISSING_LIST_ITEMS>>
TimeoutErrorsAlways(req) == <<LOAD_TIMEOUT>>

\* Variant: a response without items is retried without a report.
EmptyItemsErrorsSilent(req) == IF CanRetry(req) THEN <<>> ELSE <<INTERNAL_ERROR>>

\* The errors of a failed attempt by empty items, and by timeout.
EmptyItemsErrors(req) == IF CanRetry(req) THEN <<MISSING_LIST_ITEMS>> ELSE <<INTERNAL_ERROR>>
TimeoutErrors(req) == IF CanRetry(req) THEN <<LOAD_TIMEOUT>> ELSE <<>>

-----------------------------------------------------------------------------
(* processUpdate *)

\* The pending request an envelope's correlation token names, if any.
RequestOf(pend, e) == {p \in pend : p.corr = e.corr}

\* Variant: the envelope's listId alone decides the list.
GetConnectionByListId(pend, e) == IF e.listId \in live THEN e.listId ELSE NoList

\* Variant: an envelope for an unknown list goes to a list that exists.
GetConnectionAnyList(pend, e) ==
    IF RequestOf(pend, e) # {}
    THEN (CHOOSE p \in RequestOf(pend, e) : TRUE).listId
    ELSE IF e.listId \in live THEN e.listId
    ELSE IF live # {} THEN CHOOSE L \in live : TRUE ELSE NoList

\* The list an envelope is applied to: the list of the request its
\* correlation token names, else the list its listId names.
GetConnection(pend, e) ==
    IF RequestOf(pend, e) # {}
    THEN (CHOOSE p \in RequestOf(pend, e) : TRUE).listId
    ELSE IF e.listId \in live THEN e.listId ELSE NoList

\* Variant: the substitution of the list goes unreported.
ConnectionErrorsSilent(pend, e) ==
    IF RequestOf(pend, e) # {} \/ e.listId \in live THEN <<>> ELSE <<INVALID_LIST_ID>>

\* Variant: an envelope whose correlation token names no pending request is
\* reported even when its listId is known.
ConnectionErrorsUnknownToken(pend, e) ==
    IF RequestOf(pend, e) # {}
    THEN IF (CHOOSE p \in RequestOf(pend, e) : TRUE).listId # e.listId
         THEN <<INCONSISTENT_LIST_ID>> ELSE <<>>
    ELSE IF e.listId \in live THEN <<INTERNAL_ERROR>> ELSE <<INVALID_LIST_ID>>

\* The error of an envelope whose listId is not the list it is applied to.
ConnectionErrors(pend, e) ==
    IF RequestOf(pend, e) # {}
    THEN IF (CHOOSE p \in RequestOf(pend, e) : TRUE).listId # e.listId
         THEN <<INCONSISTENT_LIST_ID>> ELSE <<>>
    ELSE IF e.listId \in live THEN <<>> ELSE <<INVALID_LIST_ID>>

\* The pending request of list L that waits for the envelope's page token.
RequestForPage(pend, L, e) == {p \in pend : p.listId = L /\ p.token = e.pageToken}

\* Variant: an empty response counts only against the request of its page token.
AttemptOfPageOnly(pend, L, e) == RequestForPage(pend, L, e)

\* Variant: the request the correlation token names counts only if the
\* envelope's page token is the one it waits for.
AttemptOfMatchingPage(pend, L, e) == {p \in RequestOf(pend, e) : p.token = e.pageToken}

\* The request a failed attempt of envelope e counts against: the one its
\* correlation token names, whatever its page token, else the one that waits
\* for its page token.
AttemptOf(pend, L, e) ==
    IF RequestOf(pend, e) # {} THEN RequestOf(pend, e)
    ELSE RequestForPage(pend, L, e)

\* Variant: only the forward frontier takes a page by its page token alone.
FrontierOfForwardOnly(ls, e) ==
    IF ls.fwd # NoToken /\ e.pageToken = ls.fwd THEN Forward ELSE "unknown"

\* Variant: a page is taken by the direction of its token, whether or not the
\* frontier has moved past it.
FrontierOfPastPage(ls, e) ==
    IF e.pageToken \in {"F0", "F1"} THEN Forward
    ELSE IF e.pageToken = "B0" THEN Backward
    ELSE "unknown"

\* The frontier of the list whose current token is the envelope's page token.
FrontierOf(ls, e) ==
    IF ls.fwd # NoToken /\ e.pageToken = ls.fwd THEN Forward
    ELSE IF ls.bwd # NoToken /\ e.pageToken = ls.bwd THEN Backward
    ELSE "unknown"

\* The page token check of an envelope whose correlation token names req.
ExpectedPage(req, e) == IF e.pageToken = req.token THEN req.dir ELSE "stale"

\* The frontier an envelope with items extends.
DirectionOf(pend, ls, e) ==
    IF RequestOf(pend, e) # {}
    THEN ExpectedPage(CHOOSE p \in RequestOf(pend, e) : TRUE, e)
    ELSE FrontierOf(ls, e)

\* Variant: an accepted page removes the requests of its direction in every list.
ClearTimeoutsOfDirection(pend, L, d, e) == {p \in pend : p.dir # d}

\* Variants: only the request the envelope's correlation token names is
\* removed; no request is removed.
ClearTimeoutsOfToken(pend, L, d, e) == pend \ RequestOf(pend, e)
ClearTimeoutsNever(pend, L, d, e) == pend

\* An accepted page resolves the frontier: the request that waits for it is
\* removed and its timer withdrawn, whichever correlation token the page came with.
ClearTimeouts(pend, L, d, e) == pend \ PendingOf(pend, L, d)

\* Variant: a response never leaves a further page to fetch.
NextPageTokenClosed(e) == NoToken

NextPageToken(e) == IF e.next THEN NextToken[e.pageToken] ELSE NoToken

\* Variant: the frontier token moves on but the page's items are dropped.
SpliceWithoutItems(ls, d, e) ==
    IF d = Forward
    THEN [ls EXCEPT !.fwd = NextPageToken(e), !.abandoned = ls.abandoned \ {Forward}]
    ELSE [ls EXCEPT !.bwd = NextPageToken(e), !.abandoned = ls.abandoned \ {Backward}]

\* Variants: a forward page goes in front of the items; a backward page
\* leaves the base index where it was.
SpliceForwardAtFront(ls, d, e) ==
    IF d = Forward
    THEN [ls EXCEPT !.items = PageItems(e.pageToken, e.k) \o ls.items,
                    !.fwd = NextPageToken(e),
                    !.abandoned = ls.abandoned \ {Forward}]
    ELSE [ls EXCEPT !.items = PageItems(e.pageToken, e.k) \o ls.items,
                    !.baseIndex = ls.baseIndex - e.k,
                    !.bwd = NextPageToken(e),
                    !.view = IF Len(ls.items) = 0 THEN 0 ELSE ls.view + e.k,
                    !.abandoned = ls.abandoned \ {Backward}]
SpliceKeepsBaseIndex(ls, d, e) ==
    IF d = Forward
    THEN [ls EXCEPT !.items = ls.items \o PageItems(e.pageToken, e.k),
                    !.fwd = NextPageToken(e),
                    !.abandoned = ls.abandoned \ {Forward}]
    ELSE [ls EXCEPT !.items = PageItems(e.pageToken, e.k) \o ls.items,
                    !.bwd = NextPageToken(e),
                    !.view = IF Len(ls.items) = 0 THEN 0 ELSE ls.view + e.k,
                    !.abandoned = ls.abandoned \ {Backward}]
SpliceBackwardAtEnd(ls, d, e) ==
    IF d = Forward
    THEN [ls EXCEPT !.items = ls.items \o PageItems(e.pageToken, e.k),
                    !.fwd = NextPageToken(e),
                    !.abandoned = ls.abandoned \ {Forward}]
    ELSE [ls EXCEPT !.items = ls.items \o PageItems(e.pageToken, e.k),
                    !.baseIndex = ls.baseIndex - e.k,
                    !.bwd = NextPageToken(e),
                    !.view = IF Len(ls.items) = 0 THEN 0 ELSE ls.view + e.k,
                    !.abandoned = ls.abandoned \ {Backward}]

\* The children with a page's children inserted after the first pos of them.
InsertAt(children, pos, page) ==
    SubSeq(children, 1, pos) \o page \o SubSeq(children, pos + 1, Len(children))

\* Variant: the component inserts a page's children at its very ends, outside
\* the sentinels.
SpliceOutsideSentinels(ls, d, e) ==
    IF d = Forward
    THEN [ls EXCEPT !.items = ls.items \o PageItems(e.pageToken, e.k),
                    !.children = InsertAt(@, Len(@), PageItems(e.pageToken, e.k)),
                    !.fwd = NextPageToken(e),
                    !.abandoned = ls.abandoned \ {Forward}]
    ELSE [ls EXCEPT !.items = PageItems(e.pageToken, e.k) \o ls.items,
                    !.children = InsertAt(@, 0, PageItems(e.pageToken, e.k)),
                    !.baseIndex = ls.baseIndex - e.k,
                    !.bwd = NextPageToken(e),
                    !.view = IF Len(ls.items) = 0 THEN 0 ELSE ls.view + e.k,
                    !.abandoned = ls.abandoned \ {Backward}]

\* An accepted page is appended at the forward frontier or prepended at the
\* backward one, and its nextPageToken becomes the frontier's token; the
\* component inserts the page's children inside its sentinels.
\* The scroll position after k children were inserted behind the firstItem:
\* it grows by their height if the child at the top of the viewport is behind
\* the place of insertion, and stays if that child is the firstItem.
FixScrollPosition(ls, k) ==
    IF Len(ls.items) = 0 \/ ls.scroll < ItemHeight * Len(FirstItems(ls.doc))
    THEN ls.scroll
    ELSE ls.scroll + ItemHeight * k

\* Variant: a backward page leaves the scroll position where it was.
SpliceKeepsScrollPosition(ls, d, e) ==
    IF d = Forward
    THEN [ls EXCEPT !.items = ls.items \o PageItems(e.pageToken, e.k),
                    !.children = InsertAt(@, Len(@) - Len(LastItems(ls.doc)),
                                          PageItems(e.pageToken, e.k)),
                    !.fwd = NextPageToken(e),
                    !.abandoned = ls.abandoned \ {Forward}]
    ELSE [ls EXCEPT !.items = PageItems(e.pageToken, e.k) \o ls.items,
                    !.children = InsertAt(@, Len(FirstItems(ls.doc)),
                                          PageItems(e.pageToken, e.k)),
                    !.baseIndex = ls.baseIndex - e.k,
                    !.bwd = NextPageToken(e),
                    !.view = IF Len(ls.items) = 0 THEN 0 ELSE ls.view + e.k,
                    !.abandoned = ls.abandoned \ {Backward}]

Splice(ls, d, e) ==
    IF d = Forward
    THEN [ls EXCEPT !.items = ls.items \o PageItems(e.pageToken, e.k),
                    !.children = InsertAt(@, Len(@) - Len(LastItems(ls.doc)),
                                          PageItems(e.pageToken, e.k)),
                    !.fwd = NextPageToken(e),
                    !.abandoned = ls.abandoned \ {Forward}]
    ELSE [ls EXCEPT !.items = PageItems(e.pageToken, e.k) \o ls.items,
                    !.children = InsertAt(@, Len(FirstItems(ls.doc)),
                                          PageItems(e.pageToken, e.k)),
                    !.baseIndex = ls.baseIndex - e.k,
                    !.bwd = NextPageToken(e),
                    !.view = IF Len(ls.items) = 0 THEN 0 ELSE ls.view + e.k,
                    !.scroll = FixScrollPosition(ls, e.k),
                    !.abandoned = ls.abandoned \ {Backward}]

Opposite(d) == IF d = Forward THEN Backward ELSE Forward

-----------------------------------------------------------------------------
(* Actions *)

Min(a, b) == IF a < b THEN a ELSE b

TimerDue == \E p \in pending : p.remaining = 0

\* The host calls in between the loop's timers, and after it has drained the
\* errors of its previous call.
HostReady == ~TimerDue /\ errors = <<>>

State == [pending |-> pending, nextCorr |-> nextCorr, events |-> events]

NoEnv == [listId |-> NoList, corr |-> NoCorr, pageToken |-> NoToken,
          next |-> FALSE, k |-> 0]

NoReq == [corr |-> NoCorr, listId |-> NoList, dir |-> Forward, token |-> NoToken,
          retries |-> 0, remaining |-> 0, sentAt |-> 0]

\* The record of a call: what it was given, what it returned and queued, the
\* fetch events it emitted, and the provider's tables before it.
Call(op, ret, errs, sent, env, req) ==
    [op |-> op, ret |-> ret, errs |-> errs, sent |-> sent, env |-> env, req |-> req,
     pre |-> [live |-> live, lists |-> lists, pending |-> pending,
              nextCorr |-> nextCorr, errors |-> errors]]

\* The common end of every call: the new tables, the errors it queued and
\* the record of the call.
\* The cap of the correlation counter: MaxCorr, and one token more while a
\* frontier is given up, so that a fetch after the giving up is within it.
CorrCap(lss) ==
    MaxCorr + 1 + (IF \E L \in DOMAIN lss : lss[L].abandoned # {} THEN 1 ELSE 0)

Finish(op, ret, errs, lss, st, env, req) ==
    /\ lists' = lss
    /\ pending' = st.pending
    /\ nextCorr' = st.nextCorr
    /\ events' = st.events
    /\ errors' = errors \o errs
    /\ clock' = clock
    /\ nextCorr' <= CorrCap(lss)
    /\ last' = Call(op, ret, errs, SubSeq(st.events, Len(events) + 1, Len(st.events)),
                     env, req)

\* The list of a seed as document doc shows it.
SeedListOf(doc, seed) ==
    [items |-> PageItems(SeedPageToken, seed.n), baseIndex |-> 0,
     fwd |-> seed.fwd, bwd |-> seed.bwd, view |-> 0, abandoned |-> {}, doc |-> doc,
     children |-> FirstItems(doc) \o PageItems(SeedPageToken, seed.n) \o LastItems(doc),
     scroll |-> 0]

SeedList(seed) == SeedListOf(BASIC, seed)

\* What a create call was given: the listId of the source and its seed.
Source(L, seed) == [listId |-> L, seed |-> seed]

\* Variant: a second source with a bound listId takes the list over.
CreateListReplaces(L, seed) ==
    /\ HostReady
    /\ IF ~seed.ok
       THEN /\ Finish("create", FALSE, <<INTERNAL_ERROR>>, lists, State,
                      Source(L, seed), NoReq)
            /\ UNCHANGED live
       ELSE /\ live' = live \cup {L}
            /\ Finish("create", TRUE, <<>>, [lists EXCEPT ![L] = SeedList(seed)],
                      InitialFetch([State EXCEPT !.pending =
                                       {p \in pending : p.listId # L}],
                                   SeedList(seed), L),
                      Source(L, seed), NoReq)

\* Variant: a seed without listId or pageToken is bound all the same.
CreateListUnchecked(L, seed) ==
    /\ HostReady
    /\ IF L \in live
       THEN /\ Finish("create", FALSE, <<INTERNAL_ERROR>>, lists, State,
                      Source(L, seed), NoReq)
            /\ UNCHANGED live
       ELSE /\ live' = live \cup {L}
            /\ Finish("create", TRUE, <<>>, [lists EXCEPT ![L] = SeedList(seed)],
                      InitialFetch(State, SeedList(seed), L), Source(L, seed), NoReq)

\* The document evaluator binds a dynamic source of document doc: createList
\* and the first layout.
LoadDocument(doc, L, seed) ==
    /\ HostReady
    /\ IF ~seed.ok \/ L \in live
       THEN /\ Finish("create", FALSE, <<INTERNAL_ERROR>>, lists, State,
                      Source(L, seed), NoReq)
            /\ UNCHANGED live
       ELSE /\ live' = live \cup {L}
            /\ Finish("create", TRUE, <<>>, [lists EXCEPT ![L] = SeedListOf(doc, seed)],
                      InitialFetch(State, SeedListOf(doc, seed), L), Source(L, seed), NoReq)

\* The same for the document without sentinels.
CreateList(L, seed) == LoadDocument(BASIC, L, seed)

\* Variant: a payload that is not an object is dropped without an error.
ProcessUpdateNullSilent ==
    /\ HostReady
    /\ Finish("processUpdate", FALSE, <<>>, lists, State, NoEnv, NoReq)
    /\ UNCHANGED live

\* processUpdate with a payload that is not an object.
ProcessUpdateNull ==
    /\ HostReady
    /\ Finish("processUpdate", FALSE, <<INTERNAL_ERROR>>, lists, State, NoEnv, NoReq)
    /\ UNCHANGED live

ProcessUpdate(e) ==
    LET conn == GetConnection(pending, e)
        cerrs == ConnectionErrors(pending, e)
    IN  /\ HostReady
        /\ e.corr < nextCorr
        /\ UNCHANGED live
        /\ IF conn = NoList
           THEN Finish("processUpdate", FALSE, cerrs, lists, State, e, NoReq)
           ELSE IF e.k = 0
           THEN IF AttemptOf(pending, conn, e) = {}
                THEN Finish("processUpdate", FALSE, cerrs \o <<MISSING_LIST_ITEMS>>,
                            lists, State, e, NoReq)
                ELSE LET req == CHOOSE p \in AttemptOf(pending, conn, e) : TRUE
                     IN  Finish("processUpdate", FALSE, cerrs \o EmptyItemsErrors(req),
                                Abandon(lists, req), RetryFetchRequest(State, req), e, req)
           ELSE LET d == DirectionOf(pending, lists[conn], e)
                IN  IF d = "stale"
                    THEN Finish("processUpdate", FALSE, cerrs \o <<INCONSISTENT_LIST_ID>>,
                                lists, State, e, NoReq)
                    ELSE IF d = "unknown"
                    THEN Finish("processUpdate", FALSE, cerrs \o <<INTERNAL_ERROR>>,
                                lists, State, e, NoReq)
                    ELSE LET ls1 == Splice(lists[conn], d, e)
                             st1 == Ensure(State, ls1, conn, Opposite(d))
                             st2 == [st1 EXCEPT !.pending = ClearTimeouts(@, conn, d, e)]
                         IN  Finish("processUpdate", TRUE, cerrs,
                                    [lists EXCEPT ![conn] = ls1], st2, e, NoReq)

\* The deadline timer of a pending request fires.
Timeout(req) ==
    /\ req \in pending
    /\ req.remaining = 0
    /\ Finish("timeout", FALSE, TimeoutErrors(req), Abandon(lists, req),
              RetryFetchRequest(State, req), NoEnv, req)
    /\ UNCHANGED live

\* A layout pass (root->clearPending) re-evaluates the scheduler.
Layout(L) ==
    /\ HostReady
    /\ L \in live
    /\ EnsureBoth(State, lists[L], L) # State
    /\ Finish("layout", FALSE, <<>>, lists, EnsureBoth(State, lists[L], L), NoEnv, NoReq)
    /\ UNCHANGED live

\* The viewport moves to the item at relative position idx.
ScrollTo(L, idx) ==
    /\ HostReady
    /\ L \in live
    /\ idx \in {0, Len(lists[L].items) - 1}
    /\ idx >= 0
    /\ idx # lists[L].view
    /\ LET ls1 == [lists[L] EXCEPT
                     !.view = idx,
                     !.scroll = ItemHeight * (idx + Len(FirstItems(lists[L].doc)))]
       IN  Finish("scroll", FALSE, <<>>, [lists EXCEPT ![L] = ls1],
                  EnsureBoth(State, ls1, L), NoEnv, NoReq)
    /\ UNCHANGED live

\* Variant: the queue is returned but not emptied.
GetPendingErrorsKeepsQueue ==
    /\ ~TimerDue
    /\ errors' = errors
    /\ last' = Call("drain", errors, <<>>, <<>>, NoEnv, NoReq)
    /\ UNCHANGED <<live, lists, pending, nextCorr, events, clock>>

\* getPendingErrors: returns the queued errors and empties the queue.
GetPendingErrors ==
    /\ ~TimerDue
    /\ errors' = <<>>
    /\ last' = Call("drain", errors, <<>>, <<>>, NoEnv, NoReq)
    /\ UNCHANGED <<live, lists, pending, nextCorr, events, clock>>

\* The host drains the errors its calls and the timers have queued.
DrainErrors == errors # <<>> /\ GetPendingErrors

Earliest == CHOOSE t \in {p.remaining : p \in pending} :
                \A p \in pending : t <= p.remaining

\* Every armed timer comes d closer to its deadline.
Elapse(d) == pending' = {[p EXCEPT !.remaining = @ - d] : p \in pending}

\* The host's loop advances the logical clock, never past a deadline.
AdvanceTime ==
    /\ ~TimerDue
    /\ pending # {}
    /\ Elapse(Min(TimeStep, Earliest))
    /\ last' = Call("advance", FALSE, <<>>, <<>>, NoEnv, NoReq)
    /\ UNCHANGED <<live, lists, nextCorr, errors, events, clock>>

\* The same step with the time of the loop observed (loop->advanceToTime).
Tick ==
    /\ ~TimerDue
    /\ pending # {}
    /\ clock + Min(TimeStep, Earliest) <= MaxTime
    /\ Elapse(Min(TimeStep, Earliest))
    /\ clock' = clock + Min(TimeStep, Earliest)
    /\ last' = Call("advance", FALSE, <<>>, <<>>, NoEnv, NoReq)
    /\ UNCHANGED <<live, lists, nextCorr, errors, events>>

Init ==
    /\ live = {}
    /\ lists = [L \in AllListIds |-> EmptyList]
    /\ pending = {}
    /\ nextCorr = FirstCorrelationToken
    /\ errors = <<>>
    /\ events = <<>>
    /\ clock = 0
    /\ last = Call("init", FALSE, <<>>, <<>>, NoEnv, NoReq)

Next ==
    \/ \E L \in ListIds, seed \in Seeds : CreateList(L, seed)
    \/ ProcessUpdateNull
    \/ \E e \in Envelopes : ProcessUpdate(e)
    \/ \E req \in pending : Timeout(req)
    \/ \E L \in ListIds : Layout(L)
    \/ \E L \in ListIds, idx \in 0..(SeedSize + 3 * PageSize) : ScrollTo(L, idx)
    \/ DrainErrors
    \/ AdvanceTime

Spec == Init /\ [][Next]_vars

\* Variant: the correlation tokens start over with the new document.
DestroyDocumentResetsTokens ==
    /\ HostReady
    /\ live # {}
    /\ live' = {}
    /\ lists' = [L \in AllListIds |-> EmptyList]
    /\ pending' = {}
    /\ nextCorr' = FirstCorrelationToken
    /\ last' = Call("destroy", FALSE, <<>>, <<>>, NoEnv, NoReq)
    /\ UNCHANGED <<errors, events, clock>>

\* Variant: the lists are gone but their requests and timers stay.
DestroyDocumentKeepsRequests ==
    /\ HostReady
    /\ live # {}
    /\ live' = {}
    /\ lists' = [L \in AllListIds |-> EmptyList]
    /\ last' = Call("destroy", FALSE, <<>>, <<>>, NoEnv, NoReq)
    /\ UNCHANGED <<pending, nextCorr, errors, events, clock>>

\* The document and its RootContext are destroyed: its lists are gone and
\* their requests are cancelled; the provider and its counter live on.
DestroyDocument ==
    /\ HostReady
    /\ live # {}
    /\ live' = {}
    /\ lists' = [L \in AllListIds |-> EmptyList]
    /\ pending' = {}
    /\ last' = Call("destroy", FALSE, <<>>, <<>>, NoEnv, NoReq)
    /\ UNCHANGED <<nextCorr, errors, events, clock>>

\* A document with two dynamic sources, its destruction and re-creation.
MultiSeeds == {SMALLER_DATA, SMALLER_DATA_BACK}
MultiEnvelopes == {e \in [listId : AllListIds,
                          corr : FirstCorrelationToken..MaxCorr,
                          pageToken : {ForwardSeedToken, BackwardSeedToken},
                          next : BOOLEAN,
                          k : {0, PageSize}] : e.k = 0 => ~e.next}

NextMulti ==
    \/ \E L \in AllListIds, seed \in MultiSeeds : CreateList(L, seed)
    \/ \E e \in MultiEnvelopes : ProcessUpdate(e)
    \/ \E req \in pending : Timeout(req)
    \/ \E L \in AllListIds : Layout(L)
    \/ DrainErrors
    \/ AdvanceTime
    \/ DestroyDocument

SpecMulti == Init /\ [][NextMulti]_vars

\* The error queue of one list's provider, with a host that also asks for the
\* errors when none are queued.
ErrorEnvelopes == {e \in Envelopes : e.pageToken \in {ForwardSeedToken, BackwardSeedToken}}

NextErrors ==
    \/ \E L \in ListIds, seed \in {SMALLER_DATA, DATA} : CreateList(L, seed)
    \/ ProcessUpdateNull
    \/ \E e \in ErrorEnvelopes : ProcessUpdate(e)
    \/ \E req \in pending : Timeout(req)
    \/ GetPendingErrors
    \/ AdvanceTime

SpecErrors == Init /\ [][NextErrors]_vars

\* The timing of the requests of one list with the time of the loop observed:
\* the documents with one and with two frontiers, the responses to their
\* requests, the timers and the loop.
ClockSeeds == {SMALLER_DATA, DATA}
ClockEnvelopes == {e \in Envelopes : e.listId \in ListIds /\ e.corr >= FirstCorrelationToken
                                     /\ e.pageToken \in {ForwardSeedToken, BackwardSeedToken}}

NextClock ==
    \/ \E L \in ListIds, seed \in ClockSeeds : CreateList(L, seed)
    \/ \E e \in ClockEnvelopes : ProcessUpdate(e)
    \/ \E req \in pending : Timeout(req)
    \/ DrainErrors
    \/ Tick

SpecClock == Init /\ [][NextClock]_vars

\* The scheduler's pass over the bound lists as a new layout shows them from
\* their first item.
ResumeOne(st, lss, L) == IF L \in live THEN EnsureBoth(st, lss[L], L) ELSE st
ResumeScheduling(st, lss) == ResumeOne(ResumeOne(st, lss, "L1"), lss, "L2")

\* Variant: the re-inflated document shows its seed again.
ReinflateFromSeed ==
    /\ HostReady
    /\ live # {}
    /\ LET lss == [L \in AllListIds |->
                     [lists[L] EXCEPT !.view = 0, !.scroll = 0,
                                      !.items = SubSeq(@, 1, Min(Len(@), SeedSize))]]
       IN  Finish("reinflate", FALSE, <<>>, lss,
                  ResumeScheduling([State EXCEPT !.pending = {}], lss), NoEnv, NoReq)
    /\ UNCHANGED live

\* A configuration change re-inflates the document: the lists stay bound with
\* their items, base index and tokens, the requests in flight are cancelled,
\* and the scheduler starts over on the new layout.
Reinflate ==
    /\ HostReady
    /\ live # {}
    /\ LET lss == [L \in AllListIds |-> [lists[L] EXCEPT !.view = 0, !.scroll = 0]]
       IN  Finish("reinflate", FALSE, <<>>, lss,
                  ResumeScheduling([State EXCEPT !.pending = {}], lss), NoEnv, NoReq)
    /\ UNCHANGED live

\* One list, its responses and timers, and configuration changes.
NextReinflate ==
    \/ \E L \in ListIds, seed \in ClockSeeds : CreateList(L, seed)
    \/ \E e \in ClockEnvelopes : ProcessUpdate(e)
    \/ \E req \in pending : Timeout(req)
    \/ DrainErrors
    \/ AdvanceTime
    \/ Reinflate

SpecReinflate == Init /\ [][NextReinflate]_vars

\* One list in the documents with and without firstItem and lastItem, and
\* the pages of both its frontiers.
SentinelSeeds == {DATA, SMALLER_DATA, SMALLER_DATA_BACK}
SentinelEnvelopes == {e \in Envelopes : e.listId \in ListIds /\ e.corr >= FirstCorrelationToken
                                         /\ e.pageToken \in PageTokens /\ e.k > 0}

NextSentinels ==
    \/ \E doc \in Documents, L \in ListIds, seed \in SentinelSeeds : LoadDocument(doc, L, seed)
    \/ \E e \in SentinelEnvelopes : ProcessUpdate(e)
    \/ \E req \in pending : Timeout(req)
    \/ \E L \in ListIds : Layout(L)
    \/ DrainErrors
    \/ AdvanceTime

SpecSentinels == Init /\ [][NextSentinels]_vars

\* A Sequence with or without sentinels whose viewport the host moves.
ScrollDocuments == {BASIC, FIRST_AND_LAST, LAST}

NextScroll ==
    \/ \E doc \in ScrollDocuments, L \in ListIds : LoadDocument(doc, L, DATA)
    \/ \E e \in SentinelEnvelopes : ProcessUpdate(e)
    \/ \E req \in pending : Timeout(req)
    \/ \E L \in ListIds : Layout(L)
    \/ \E L \in ListIds, idx \in 0..(SeedSize + 3 * PageSize) : ScrollTo(L, idx)
    \/ DrainErrors
    \/ AdvanceTime

SpecScroll == Init /\ [][NextScroll]_vars

\* One list seeded short, empty or longer than a cache chunk, its pages and
\* the movement of the viewport.
PagerSeeds == {DATA, EMPTY, BASIC_PAGER_DATA}
PagerEnvelopes == {e \in Envelopes : e.listId \in ListIds /\ e.corr >= FirstCorrelationToken
                                      /\ e.pageToken \in PageTokens /\ e.k > 0}

NextPager ==
    \/ \E L \in ListIds, seed \in PagerSeeds : CreateList(L, seed)
    \/ \E e \in PagerEnvelopes : ProcessUpdate(e)
    \/ \E req \in pending : Timeout(req)
    \/ \E L \in ListIds : Layout(L)
    \/ \E L \in ListIds, idx \in 0..(CacheChunkSize + 3 * PageSize) : ScrollTo(L, idx)
    \/ DrainErrors
    \/ AdvanceTime

SpecPager == Init /\ [][NextPager]_vars

-----------------------------------------------------------------------------
(* What a call did, read from its record *)

IsUpdate == last.op = "processUpdate" /\ last.env # NoEnv

ItemsChanged(L) == lists[L].items # last.pre.lists[L].items

\* The list grew by exactly the envelope's items.
SplicedInto(L) ==
    /\ Len(lists[L].items) = Len(last.pre.lists[L].items) + last.env.k
    /\ \E i \in 1..Len(lists[L].items) : lists[L].items[i] = <<last.env.pageToken, 1>>

\* The list's items, base index and frontier tokens are as before the call.
ListUntouched(L) ==
    /\ lists[L].items = last.pre.lists[L].items
    /\ lists[L].baseIndex = last.pre.lists[L].baseIndex
    /\ lists[L].fwd = last.pre.lists[L].fwd
    /\ lists[L].bwd = last.pre.lists[L].bwd

\* The fetch events emitted before the call.
PreEvents == SubSeq(events, 1, Len(events) - Len(last.sent))

\* How many fetch events of evs asked list L for page tok.
EventsFor(evs, L, tok) ==
    Cardinality({i \in DOMAIN evs : evs[i].listId = L /\ evs[i].pageToken = tok})

\* The attempts made for the page of the failed request, the failed one included.
Attempts == EventsFor(PreEvents, last.req.listId, last.req.token)

Issued(c, L, tok) ==
    \E i \in DOMAIN PreEvents :
        PreEvents[i] = [listId |-> L, corr |-> c, pageToken |-> tok]

HasPage(ls, tok) == \E i \in 1..Len(ls.items) : ls.items[i][1] = tok

-----------------------------------------------------------------------------
(* Claims *)

\* C1: processUpdate returns true exactly when the envelope was accepted and
\* its items were spliced into a list; every call that spliced nothing, the
\* call with a payload that is no object included, returns false.
C1_TrueIffSpliced ==
    last.op = "processUpdate" =>
        /\ last.ret <=> \E L \in ListIds : ItemsChanged(L)
        /\ last.ret => \E L \in ListIds : SplicedInto(L)

C1_Witness == IsUpdate /\ last.ret /\ \E L \in ListIds : SplicedInto(L)

\* C2: a rejected envelope leaves every list's items, base index and frontier
\* tokens as they were, and leaves the pending requests (timers and retry
\* counters) as they were unless it is an attempt with empty items; a request
\* with an advanced retry counter appears only at a timeout or at such an attempt.
C2_RejectedChangesNothing ==
    /\ (last.op = "processUpdate" /\ ~last.ret) =>
          /\ \A L \in ListIds : ListUntouched(L)
          /\ pending # last.pre.pending => (IsUpdate /\ last.env.k = 0)
    /\ (\E p \in pending : p.retries > 0 /\ p.corr >= last.pre.nextCorr) =>
          \/ last.op = "timeout"
          \/ IsUpdate /\ ~last.ret /\ last.env.k = 0

C2_Witness ==
    /\ IsUpdate /\ ~last.ret /\ last.env.k > 0
    /\ last.pre.pending # {}
    /\ last.errs = <<INCONSISTENT_LIST_ID>>
    /\ pending = last.pre.pending

\* The envelope's correlation token names a pending request of another list
\* than the one its listId names.
WrongListOf(p) ==
    /\ IsUpdate
    /\ p \in last.pre.pending
    /\ p.corr = last.env.corr
    /\ p.listId # last.env.listId

\* C3 as stated: such an envelope is rejected with INCONSISTENT_LIST_ID and
\* changes nothing.
C3_Original ==
    \A p \in last.pre.pending : WrongListOf(p) =>
        /\ ~last.ret
        /\ last.errs = <<INCONSISTENT_LIST_ID>>
        /\ lists = last.pre.lists
        /\ pending = last.pre.pending

\* C3: an envelope whose correlation token names a pending request of list L
\* but whose listId is not L queues INCONSISTENT_LIST_ID and is validated
\* against L: it is accepted exactly when it has items and the request's page
\* token, and then spliced into L; otherwise no list's items change.
C3_WrongListIsSubstituted ==
    \A p \in last.pre.pending : WrongListOf(p) =>
        /\ last.errs # <<>> /\ last.errs[1] = INCONSISTENT_LIST_ID
        /\ last.ret <=> (last.env.k > 0 /\ last.env.pageToken = p.token)
        /\ last.ret => SplicedInto(p.listId) /\ p \notin pending
        /\ ~last.ret => \A L \in ListIds : ListUntouched(L)

C3_Witness ==
    \E p \in last.pre.pending :
        /\ WrongListOf(p) /\ last.ret
        /\ SplicedInto(p.listId)
        /\ last.errs = <<INCONSISTENT_LIST_ID>>

\* C4: a response (items, the request's page token) whose correlation token
\* names a pending request but whose listId names an unknown list is applied
\* to the request's list: processUpdate returns true, the list grows by the
\* envelope's items, the request is resolved and its page is not asked for
\* again, and exactly one INCONSISTENT_LIST_ID error is queued.
C4_CorrelationTokenSubstitute ==
    \A p \in last.pre.pending :
        (/\ WrongListOf(p)
         /\ last.env.listId \notin live
         /\ last.env.k > 0
         /\ last.env.pageToken = p.token) =>
            /\ last.ret
            /\ Len(lists[p.listId].items)
                 = Len(last.pre.lists[p.listId].items) + last.env.k
            /\ PendingOf(pending, p.listId, p.dir) = {}
            /\ \A i \in DOMAIN last.sent : last.sent[i].pageToken # p.token
            /\ last.errs = <<INCONSISTENT_LIST_ID>>

C4_Witness ==
    \E p \in last.pre.pending :
        /\ WrongListOf(p)
        /\ last.env.listId \notin live
        /\ last.env.k > 0
        /\ last.env.pageToken = p.token
        /\ p.corr = FirstCorrelationToken
        /\ last.sent = <<>>

\* C5: an envelope whose listId is unknown and whose correlation token names
\* no pending request returns false, queues exactly one INVALID_LIST_ID and
\* changes nothing; the requests stay pending, and a response that carries
\* the correlation token, list id and page token of a pending request, with
\* items, is accepted.
C5_UnknownListRejected ==
    /\ (/\ IsUpdate
        /\ last.env.listId \notin live
        /\ \A p \in last.pre.pending : p.corr # last.env.corr) =>
            /\ ~last.ret
            /\ last.errs = <<INVALID_LIST_ID>>
            /\ lists = last.pre.lists
            /\ pending = last.pre.pending
            /\ last.sent = <<>>
    /\ \A p \in last.pre.pending :
          (/\ IsUpdate
           /\ p.corr = last.env.corr
           /\ p.listId = last.env.listId
           /\ p.token = last.env.pageToken
           /\ last.env.k > 0) => last.ret /\ last.errs = <<>>

C5_Witness ==
    /\ IsUpdate
    /\ last.env.listId \notin live
    /\ last.env.corr = BadCorrelationToken
    /\ last.errs = <<INVALID_LIST_ID>>
    /\ \E p \in pending : p.corr = FirstCorrelationToken

\* C6: once a failed attempt has caused a retry, a response with the earlier
\* correlation token and the page token of the request is accepted and
\* spliced, and no request (timer) for that page stays; a response that then
\* comes with a correlation token issued for that page returns false, queues
\* exactly one INTERNAL_ERROR and changes nothing.
C6_DelayedResponse ==
    /\ \A p \in last.pre.pending :
          (/\ IsUpdate /\ last.env.k > 0
           /\ p.listId = last.env.listId
           /\ p.token = last.env.pageToken
           /\ p.corr > last.env.corr
           /\ Issued(last.env.corr, p.listId, p.token)) =>
              /\ last.ret
              /\ last.errs = <<>>
              /\ SplicedInto(p.listId)
              /\ \A q \in pending : ~(q.listId = p.listId /\ q.token = p.token)
    /\ (/\ IsUpdate /\ last.env.k > 0
        /\ last.env.listId \in live
        /\ Issued(last.env.corr, last.env.listId, last.env.pageToken)
        /\ HasPage(last.pre.lists[last.env.listId], last.env.pageToken)) =>
           /\ ~last.ret
           /\ last.errs = <<INTERNAL_ERROR>>
           /\ lists = last.pre.lists
           /\ pending = last.pre.pending
           /\ last.sent = <<>>

C6_Witness ==
    /\ IsUpdate /\ last.env.k > 0 /\ ~last.ret
    /\ last.env.listId \in live
    /\ Issued(last.env.corr - 1, last.env.listId, last.env.pageToken)
    /\ Issued(last.env.corr, last.env.listId, last.env.pageToken)
    /\ HasPage(lists[last.env.listId], last.env.pageToken)
    /\ last.errs = <<INTERNAL_ERROR>>
    /\ pending = {}

\* A request's attempt failed, by timeout or by empty items.
AttemptFailed == last.req # NoReq

\* C7: a failed attempt within the retry budget emits exactly one fetch event:
\* its correlation token is greater than every token issued before, its list
\* id and page token are those of the failed request, and the new request's
\* timer is set to fetchTimeout; the failed request is gone.
C7_RetryWithinBudget ==
    (AttemptFailed /\ Attempts <= FetchRetries) =>
        /\ Len(last.sent) = 1
        /\ last.sent[1].listId = last.req.listId
        /\ last.sent[1].pageToken = last.req.token
        /\ \A i \in DOMAIN PreEvents : PreEvents[i].corr < last.sent[1].corr
        /\ \E p \in pending :
              /\ p.corr = last.sent[1].corr
              /\ p.listId = last.req.listId /\ p.token = last.req.token
              /\ p.remaining = FetchTimeout
        /\ \A p \in pending : p.corr # last.req.corr

C7_Witness ==
    /\ last.op = "timeout"
    /\ Attempts = FetchRetries
    /\ Len(last.sent) = 1
    /\ last.sent[1].corr = FirstCorrelationToken + FetchRetries

\* C8 as stated: a failed attempt beyond the retry budget, by timeout or by
\* empty items, queues INTERNAL_ERROR and emits no fetch event.
C8_Original ==
    (AttemptFailed /\ Attempts > FetchRetries) =>
        /\ \E i \in DOMAIN last.errs : last.errs[i] = INTERNAL_ERROR
        /\ last.sent = <<>>

\* C8: a failed attempt beyond the retry budget gives the frontier up: no
\* fetch event is emitted and no request for it stays, and no page is ever
\* asked for more than fetchRetries + 1 times; by empty items it queues
\* INTERNAL_ERROR in place of MISSING_LIST_ITEMS, by timeout it queues
\* nothing. Empty responses to the attempts of a page queue
\* MISSING_LIST_ITEMS up to the fetchRetries-th and INTERNAL_ERROR at the next.
C8_RetriesExhausted ==
    /\ (AttemptFailed /\ Attempts > FetchRetries) =>
          /\ last.sent = <<>>
          /\ PendingOf(pending, last.req.listId, last.req.dir) = {}
          /\ last.op = "timeout" => last.errs = <<>>
          /\ last.op = "processUpdate" =>
                /\ last.errs # <<>>
                /\ last.errs[Len(last.errs)] = INTERNAL_ERROR
                /\ \A i \in DOMAIN last.errs : last.errs[i] # MISSING_LIST_ITEMS
    /\ (AttemptFailed /\ IsUpdate /\ Attempts <= FetchRetries) =>
          /\ last.errs # <<>>
          /\ last.errs[Len(last.errs)] = MISSING_LIST_ITEMS
          /\ \A i \in DOMAIN last.errs : last.errs[i] # INTERNAL_ERROR
    /\ \A i \in DOMAIN events :
          EventsFor(events, events[i].listId, events[i].pageToken) <= FetchRetries + 1

C8_Witness ==
    /\ IsUpdate /\ AttemptFailed
    /\ last.env.k = 0
    /\ last.env.corr = FirstCorrelationToken + FetchRetries
    /\ Attempts = FetchRetries + 1
    /\ last.errs = <<INTERNAL_ERROR>>
    /\ last.sent = <<>>

\* C9: correlation tokens are handed out in sequence from 101; a timeout
\* within the retry budget queues LOAD_TIMEOUT and emits the fetch event of
\* the retry with the same list id and page token; the timeout that exhausts
\* the budget emits no event and queues no error; LOAD_TIMEOUT is queued by
\* timeouts only.
C9_TimeoutsOnly ==
    /\ \A i \in DOMAIN events : events[i].corr = FirstCorrelationToken + i - 1
    /\ last.op = "timeout" =>
          IF Attempts <= FetchRetries
          THEN /\ last.errs = <<LOAD_TIMEOUT>>
               /\ Len(last.sent) = 1
               /\ last.sent[1].listId = last.req.listId
               /\ last.sent[1].pageToken = last.req.token
          ELSE last.errs = <<>> /\ last.sent = <<>>
    /\ (\E i \in DOMAIN last.errs : last.errs[i] = LOAD_TIMEOUT) => last.op = "timeout"

C9_Witness ==
    /\ last.op = "timeout"
    /\ Len(events) = FetchRetries + 1
    /\ \A i \in DOMAIN events : events[i].pageToken = events[1].pageToken
    /\ last.req.corr = FirstCorrelationToken + FetchRetries
    /\ last.sent = <<>>
    /\ errors = <<>>

\* C10: an accepted response removes the request of its page and withdraws
\* its timer: no pending request waits for a page the list already holds, and
\* no timeout, LOAD_TIMEOUT or retry ever comes for such a page.
C10_AcceptedIsResolved ==
    /\ \A p \in pending : ~HasPage(lists[p.listId], p.token)
    /\ (IsUpdate /\ last.ret) =>
          \A p \in pending : p.token # last.env.pageToken
    /\ last.op = "timeout" => ~HasPage(last.pre.lists[last.req.listId], last.req.token)
    /\ \A i \in DOMAIN last.sent :
          ~HasPage(last.pre.lists[last.sent[i].listId], last.sent[i].pageToken)

C10_Witness ==
    /\ last.op = "timeout"
    /\ last.req.dir = Backward
    /\ HasPage(lists[last.req.listId], ForwardSeedToken)
    /\ \A p \in pending : p.dir = Backward

\* C11: a timeout comes for a pending request exactly when fetchTimeout has
\* elapsed on the loop's clock since its fetch event was emitted and its page
\* was not accepted, never earlier and never later; LOAD_TIMEOUT is queued
\* only then; the request of a retry is emitted at the time of the failure
\* and has its own full fetchTimeout.
C11_TimeoutAtDeadline ==
    /\ last.op = "timeout" =>
          /\ clock = last.req.sentAt + FetchTimeout
          /\ ~HasPage(last.pre.lists[last.req.listId], last.req.token)
    /\ (\E i \in DOMAIN last.errs : last.errs[i] = LOAD_TIMEOUT) =>
          last.op = "timeout" /\ clock = last.req.sentAt + FetchTimeout
    /\ \A p \in pending :
          /\ clock <= p.sentAt + FetchTimeout
          /\ clock = p.sentAt + FetchTimeout => TimerDue
    /\ \A i \in DOMAIN last.sent :
          \E p \in pending : p.corr = last.sent[i].corr /\ p.sentAt = clock

C11_Witness ==
    /\ last.op = "timeout"
    /\ last.req.corr = FirstCorrelationToken + 1
    /\ last.req.sentAt = FetchTimeout
    /\ clock = 2 * FetchTimeout
    /\ last.errs = <<LOAD_TIMEOUT>>

\* C12: the correlation tokens of the fetch events are strictly increasing
\* in emission order and never reused, over all lists of the provider and
\* over the destruction and re-creation of the document: the first is 101
\* and every later fetch or retry carries the next integer.
C12_CorrelationTokensIncrease ==
    /\ \A i, j \in DOMAIN events : i < j => events[i].corr < events[j].corr
    /\ \A i \in DOMAIN events : events[i].corr = FirstCorrelationToken + (i - 1)
    /\ nextCorr = FirstCorrelationToken + Len(events)
    /\ \A p \in pending : \E i \in DOMAIN events : events[i].corr = p.corr

C12_Witness ==
    \E i, j, k \in DOMAIN events :
        /\ i < j
        /\ events[i].listId = events[j].listId
        /\ events[i].pageToken = ForwardSeedToken
        /\ events[j].pageToken = BackwardSeedToken
        /\ events[k].listId # events[i].listId
        /\ i < k /\ k < j

\* C13: in every reachable state there is at most one pending request per
\* list and direction, whatever timeouts, retries, late responses and
\* movements of the viewport came before.
C13_OnePendingPerFrontier ==
    \A L \in AllListIds, d \in Dirs : Cardinality(PendingOf(pending, L, d)) <= 1

C13_Witness ==
    /\ last.op = "scroll"
    /\ \A d \in Dirs : \E L \in ListIds : Cardinality(PendingOf(pending, L, d)) = 1
    /\ \E p \in pending : p.retries > 0

\* C14: a frontier whose token is absent, from the seed or from an accepted
\* response without nextPageToken, has no pending request, stays without
\* token, and no fetch event is emitted for it, whatever the viewport does.
C14_ClosedFrontier ==
    /\ \A L \in AllListIds, d \in Dirs :
          FrontierToken(lists[L], d) = NoToken => PendingOf(pending, L, d) = {}
    /\ \A i \in DOMAIN events : events[i].pageToken # NoToken
    /\ \A p \in pending :
          p.corr >= last.pre.nextCorr =>
              /\ FrontierToken(last.pre.lists[p.listId], p.dir) # NoToken
                    \/ last.op = "create"
              /\ FrontierToken(lists[p.listId], p.dir) = p.token
    /\ last.op # "create" =>
          \A L \in AllListIds, d \in Dirs :
              FrontierToken(last.pre.lists[L], d) = NoToken
                  => FrontierToken(lists[L], d) = NoToken

C14_Witness ==
    \E L \in ListIds :
        /\ last.op = "scroll"
        /\ HasPage(lists[L], ForwardSeedToken)
        /\ lists[L].fwd = NoToken
        /\ lists[L].view = Len(lists[L].items) - 1
        /\ lists[L].bwd # NoToken

\* The call accepted a page for the forward (backward) frontier of list L.
AcceptedForward(L) ==
    /\ IsUpdate /\ last.ret /\ ItemsChanged(L)
    /\ last.pre.lists[L].fwd = last.env.pageToken
AcceptedBackward(L) ==
    /\ IsUpdate /\ last.ret /\ ItemsChanged(L)
    /\ last.pre.lists[L].bwd = last.env.pageToken

\* The nextPageToken the envelope carries, absent if it has none.
EnvelopeNext ==
    IF last.env.next THEN NextToken[last.env.pageToken] ELSE NoToken

\* C15: an accepted forward response of k items appends its items in order
\* after the existing ones, sets the forward token to its nextPageToken
\* (absent if it has none) and leaves base index, backward token and the
\* existing items as they were: the count grows by k and the child at
\* relative position priorCount + i is the i-th new item.
C15_ForwardSplice ==
    \A L \in AllListIds : AcceptedForward(L) =>
        LET old == last.pre.lists[L]
        IN  /\ Len(lists[L].items) = Len(old.items) + last.env.k
            /\ \A q \in 1..Len(old.items) : lists[L].items[q] = old.items[q]
            /\ \A i \in 1..last.env.k :
                  lists[L].items[Len(old.items) + i] = <<last.env.pageToken, i>>
            /\ lists[L].fwd = EnvelopeNext
            /\ lists[L].baseIndex = old.baseIndex
            /\ lists[L].bwd = old.bwd

C15_Witness ==
    \E L \in ListIds :
        /\ AcceptedForward(L)
        /\ last.env.pageToken = NextToken[ForwardSeedToken]
        /\ Len(last.pre.lists[L].items) > 0
        /\ lists[L].fwd = NoToken
        /\ lists[L].baseIndex < 0

\* C16: an accepted backward response of k items prepends its items in order
\* before the existing ones, lowers the base index by exactly k, sets the
\* backward token to its nextPageToken and leaves the forward token as it
\* was: the count grows by k and every existing child moves k positions up;
\* the base index changes on no other event.
C16_BackwardSplice ==
    /\ \A L \in AllListIds : AcceptedBackward(L) =>
          LET old == last.pre.lists[L]
          IN  /\ Len(lists[L].items) = Len(old.items) + last.env.k
              /\ \A i \in 1..last.env.k : lists[L].items[i] = <<last.env.pageToken, i>>
              /\ \A q \in 1..Len(old.items) :
                    lists[L].items[q + last.env.k] = old.items[q]
              /\ lists[L].baseIndex = old.baseIndex - last.env.k
              /\ lists[L].bwd = EnvelopeNext
              /\ lists[L].fwd = old.fwd
    /\ \A L \in AllListIds :
          lists[L].baseIndex # last.pre.lists[L].baseIndex => AcceptedBackward(L)

C16_Witness ==
    \E L \in ListIds :
        /\ AcceptedBackward(L)
        /\ Len(last.pre.lists[L].items) > SeedSize
        /\ lists[L].baseIndex = 0 - last.env.k
        /\ lists[L].bwd # NoToken

\* The tokens of the pages that come in at the backward frontier.
BackwardTokens == {BackwardSeedToken, NextToken[BackwardSeedToken]}

\* C17: the items of a list stay one contiguous run that starts at the base
\* index: an item at relative position q has absolute index baseIndex + q,
\* every item keeps that absolute index over every call, no item is
\* dropped or comes twice, and the base index is minus the number of items
\* that came in at the backward frontier.
C17_StableAbsoluteIndex ==
    \A L \in AllListIds :
        LET old == last.pre.lists[L]
            new == lists[L]
        IN  /\ \A q \in 1..Len(old.items) :
                  LET q2 == q + old.baseIndex - new.baseIndex
                  IN  q2 \in 1..Len(new.items) /\ new.items[q2] = old.items[q]
            /\ \A q1, q2 \in 1..Len(new.items) :
                  new.items[q1] = new.items[q2] => q1 = q2
            /\ new.baseIndex =
                  0 - Cardinality({q \in 1..Len(new.items) :
                                      new.items[q][1] \in BackwardTokens})
            /\ \A q \in 1..Len(new.items) :
                  new.items[q][1] \in BackwardTokens <=> new.baseIndex + (q - 1) < 0

C17_Witness ==
    \E L \in ListIds :
        /\ AcceptedForward(L)
        /\ lists[L].baseIndex < 0
        /\ HasPage(last.pre.lists[L], ForwardSeedToken)
        /\ HasPage(lists[L], NextToken[ForwardSeedToken])
        /\ HasPage(lists[L], SeedPageToken)

\* C18: a response with the correlation token and list id of a pending
\* request but no items is not spliced: processUpdate returns false, no
\* list's items, base index or tokens change (the frontier keeps its token
\* although the response has no nextPageToken), the request is a failed
\* attempt and is withdrawn; while the retry budget lasts exactly
\* MISSING_LIST_ITEMS is queued and the page is asked for again.
C18_EmptyResponse ==
    \A p \in last.pre.pending :
        (/\ IsUpdate
         /\ last.env.corr = p.corr
         /\ last.env.listId = p.listId
         /\ last.env.k = 0) =>
            /\ ~last.ret
            /\ \A L \in AllListIds : ListUntouched(L)
            /\ FrontierToken(lists[p.listId], p.dir) = p.token
            /\ p.token # NoToken
            /\ last.req = p
            /\ \A q \in pending : q.corr # p.corr
            /\ IF Attempts <= FetchRetries
               THEN /\ last.errs = <<MISSING_LIST_ITEMS>>
                    /\ Len(last.sent) = 1
                    /\ last.sent[1].listId = p.listId
                    /\ last.sent[1].pageToken = p.token
               ELSE last.sent = <<>>

C18_Witness ==
    \E p \in last.pre.pending :
        /\ IsUpdate
        /\ last.env.corr = p.corr
        /\ last.env.listId = p.listId
        /\ last.env.k = 0
        /\ last.env.pageToken # p.token
        /\ last.errs = <<MISSING_LIST_ITEMS>>
        /\ Len(last.sent) = 1

\* C19 as stated: a call of processUpdate that returns true queues no error.
C19_Original == (IsUpdate /\ last.ret) => last.errs = <<>>

\* C19: a call of processUpdate that returns true queues no error, except
\* that it queues exactly one INCONSISTENT_LIST_ID when the envelope's listId
\* is not the list of the pending request its correlation token names; the
\* queue drained right after holds nothing else.
C19_AcceptedQueuesNoError ==
    (IsUpdate /\ last.ret) =>
        /\ errors = last.errs
        /\ IF \E p \in last.pre.pending : WrongListOf(p)
           THEN last.errs = <<INCONSISTENT_LIST_ID>>
           ELSE last.errs = <<>>

C19_Witness ==
    /\ IsUpdate /\ last.ret
    /\ last.env.corr = NoCorr
    /\ errors = <<>>
    /\ last.sent # <<>>

\* C20: getPendingErrors returns the errors queued since the previous drain,
\* in the order in which they were queued, and empties the queue, so a call
\* right after it returns the empty sequence; every other call or timer
\* appends its errors to the queue and removes none: no error is lost or
\* reported twice.
C20_DrainReturnsQueue ==
    /\ last.op = "drain" =>
          /\ last.ret = last.pre.errors
          /\ errors = <<>>
    /\ last.op \notin {"drain", "init"} => errors = last.pre.errors \o last.errs
    /\ last.op \in {"init", "advance", "destroy"} => errors = last.pre.errors

C20_Witness ==
    /\ last.op = "drain"
    /\ Len(last.ret) = 3
    /\ last.ret[1] = INCONSISTENT_LIST_ID
    /\ last.ret[2] = MISSING_LIST_ITEMS
    /\ last.ret[3] = LOAD_TIMEOUT
    /\ errors = <<>>

-----------------------------------------------------------------------------
(* Creation, null payloads and envelopes without a correlation token *)

IsCreate == last.op = "create"

\* The provider's tables are as they were before the last call.
TablesUnchanged ==
    /\ live = last.pre.live
    /\ lists = last.pre.lists
    /\ pending = last.pre.pending
    /\ nextCorr = last.pre.nextCorr
    /\ last.sent = <<>>

\* C21: a dynamic source whose listId is already bound in the document creates
\* no list and queues exactly one INTERNAL_ERROR; the list bound first keeps
\* its items, tokens and requests, so it fetches and accepts as before.
C21_DuplicateListId ==
    (IsCreate /\ last.env.listId \in last.pre.live) =>
        /\ ~last.ret
        /\ last.errs = <<INTERNAL_ERROR>>
        /\ errors = last.pre.errors \o <<INTERNAL_ERROR>>
        /\ TablesUnchanged

C21_Witness ==
    /\ IsCreate
    /\ last.env.listId \in last.pre.live
    /\ last.env.seed.ok
    /\ last.pre.pending # {}
    /\ Len(lists[last.env.listId].items) > SeedSize

\* C22: a seed without listId or pageToken creates no list: exactly one
\* INTERNAL_ERROR, no request and no fetch event, whatever items and frontier
\* tokens the seed carries.
C22_MissingFields ==
    (IsCreate /\ ~last.env.seed.ok) =>
        /\ ~last.ret
        /\ last.errs = <<INTERNAL_ERROR>>
        /\ errors = last.pre.errors \o <<INTERNAL_ERROR>>
        /\ TablesUnchanged

C22_Witness ==
    /\ IsCreate
    /\ last.env.seed = WRONG_MISSING_FIELDS_TOKENS
    /\ last.pre.live = {}
    /\ live = {}
    /\ pending = {}
    /\ events = <<>>

\* C23: processUpdate with a payload that is not an object returns false,
\* queues exactly one INTERNAL_ERROR and leaves every list and request alone.
C23_NullPayload ==
    (last.op = "processUpdate" /\ last.env = NoEnv) =>
        /\ ~last.ret
        /\ last.errs = <<INTERNAL_ERROR>>
        /\ errors = last.pre.errors \o <<INTERNAL_ERROR>>
        /\ TablesUnchanged

C23_Witness ==
    /\ last.op = "processUpdate"
    /\ last.env = NoEnv
    /\ pending # {}
    /\ \E L \in live : Len(lists[L].items) = SeedSize

IsUncorrelated == IsUpdate /\ last.env.corr = NoCorr

\* The frontier tokens of the envelope's list before the call.
PreTokens ==
    {last.pre.lists[last.env.listId].fwd, last.pre.lists[last.env.listId].bwd} \ {NoToken}

\* The page of the last call went in front of the items of list L.
Prepended(L) ==
    /\ SplicedInto(L)
    /\ lists[L].items[1] = <<last.env.pageToken, 1>>
    /\ lists[L].baseIndex = last.pre.lists[L].baseIndex - last.env.k

-----------------------------------------------------------------------------
(* Re-inflation and destruction of the document *)

\* C25: a re-inflation keeps items, baseIndex and both frontier tokens of
\* every bound list, cancels every request that was in flight with its
\* timer, and queues no error.
C25_ReinflateKeepsLists ==
    (last.op = "reinflate") =>
        /\ live = last.pre.live
        /\ \A L \in live : ListUntouched(L)
        /\ \A p \in pending : p.corr >= last.pre.nextCorr /\ p.remaining = FetchTimeout
        /\ last.errs = <<>>
        /\ errors = last.pre.errors

\* A list grown from its seed by one page is re-inflated while a request is
\* in flight.
C25_Witness ==
    /\ last.op = "reinflate"
    /\ last.pre.pending # {}
    /\ \E L \in live : /\ Len(lists[L].items) = SeedSize + PageSize
                       /\ Len(last.pre.lists[L].items) = SeedSize + PageSize

\* C26: the destruction of the document leaves no list, request or timer, so
\* a timer only ever fires for a request of a bound list; a listId of the old
\* document is bound again without error, the new list holds the new seed's
\* items and tokens only, and its first fetch takes the provider's next
\* correlation token.
C26_DestroyCancels ==
    /\ (last.op = "destroy") =>
          /\ live = {}
          /\ pending = {}
          /\ \A L \in AllListIds : lists[L] = EmptyList
          /\ nextCorr = last.pre.nextCorr
          /\ errors = last.pre.errors
    /\ \A p \in pending : p.listId \in live
    /\ (last.op = "timeout") => last.req \in last.pre.pending /\ last.req.listId \in live
    /\ (IsCreate /\ last.env.seed.ok /\ last.env.listId \notin last.pre.live) =>
          /\ last.ret
          /\ last.errs = <<>>
          /\ lists[last.env.listId].items = PageItems(SeedPageToken, last.env.seed.n)
          /\ lists[last.env.listId].baseIndex = 0
          /\ lists[last.env.listId].fwd = last.env.seed.fwd
          /\ lists[last.env.listId].bwd = last.env.seed.bwd
          /\ \A p \in pending : p.listId = last.env.listId => p.corr >= last.pre.nextCorr
          /\ last.sent # <<>> => last.sent[1].corr = last.pre.nextCorr

\* The list of the GarbageCollection test: bound again, after the document
\* that fetched for it was destroyed, with the seed that opens backward.
C26_Witness ==
    /\ IsCreate
    /\ last.ret
    /\ last.pre.live = {}
    /\ last.env.seed = SMALLER_DATA_BACK
    /\ \E i \in 1..Len(PreEvents) : /\ PreEvents[i].listId = last.env.listId
                                    /\ PreEvents[i].pageToken = ForwardSeedToken
    /\ last.pre.nextCorr > FirstCorrelationToken
    /\ Len(last.sent) = 1
    /\ last.sent[1].corr = last.pre.nextCorr
    /\ last.sent[1].pageToken = BackwardSeedToken

-----------------------------------------------------------------------------
(* The component's children *)

\* The children that are not sentinels, in order.
ListChildren(ls) ==
    SubSeq(ls.children, Len(FirstItems(ls.doc)) + 1,
           Len(ls.children) - Len(LastItems(ls.doc)))

\* C27: whatever pages were spliced, a declared firstItem is the child at
\* position 0 and a declared lastItem the child at position n-1, the child
\* count is the number of items plus the declared sentinels, and the other
\* children are the list's items in order, so the sentinels take no index
\* of the list and belong to no page.
C27_Sentinels ==
    \A L \in live :
        LET ls == lists[L]
            n == Len(ls.children)
        IN  /\ n = Len(ls.items) + Len(FirstItems(ls.doc)) + Len(LastItems(ls.doc))
            /\ ls.doc.first => ls.children[1] = FirstItem
            /\ ls.doc.last => ls.children[n] = LastItem
            /\ ListChildren(ls) = ls.items
            /\ \A i \in 1..Len(ls.items) : ls.items[i] \notin {FirstItem, LastItem}

\* The document with both sentinels after a forward and a backward page.
C27_Witness ==
    \E L \in live :
        /\ lists[L].doc = FIRST_AND_LAST
        /\ Len(lists[L].items) = SeedSize + 2 * PageSize
        /\ lists[L].baseIndex = -PageSize
        /\ lists[L].children[1] = FirstItem
        /\ lists[L].children[2] = <<BackwardSeedToken, 1>>
        /\ lists[L].children[Len(lists[L].children)] = LastItem

-----------------------------------------------------------------------------
(* The order of processUpdate's checks *)

\* The pending request the last envelope's correlation token named.
Named(p) ==
    /\ IsUpdate
    /\ p \in last.pre.pending
    /\ last.env.corr = p.corr
    /\ last.env.listId = p.listId

\* C28 as stated: the page token is checked before the items, so an envelope
\* that names a pending request but has another page token is rejected with
\* INCONSISTENT_LIST_ID alone and leaves the request as it is, also when it
\* has no items.
C28_Original ==
    \A p \in last.pre.pending :
        (Named(p) /\ last.env.pageToken # p.token) =>
            /\ ~last.ret
            /\ last.errs = <<INCONSISTENT_LIST_ID>>
            /\ TablesUnchanged

\* C28: the listId is checked first, then the items, then the page token. An
\* envelope for an unknown list is INVALID_LIST_ID whatever else it has; one
\* that names a pending request of its list but has another page token is
\* rejected with INCONSISTENT_LIST_ID alone and takes no retry attempt if it
\* has items, and is a failed attempt of the request if it has none.
C28_CheckOrder ==
    /\ (IsUpdate /\ RequestOf(last.pre.pending, last.env) = {}
                 /\ last.env.listId \notin live) =>
          /\ ~last.ret
          /\ last.errs = <<INVALID_LIST_ID>>
          /\ TablesUnchanged
    /\ \A p \in last.pre.pending :
          (Named(p) /\ last.env.pageToken # p.token) =>
              /\ ~last.ret
              /\ \A L \in AllListIds : ListUntouched(L)
              /\ IF last.env.k > 0
                 THEN /\ last.errs = <<INCONSISTENT_LIST_ID>>
                      /\ TablesUnchanged
                 ELSE /\ last.errs \in {<<MISSING_LIST_ITEMS>>, <<INTERNAL_ERROR>>}
                      /\ p \notin pending
                      /\ last.req = p

\* An envelope with items, the correlation token of a pending request and
\* another page token.
C28_Witness ==
    \E p \in last.pre.pending :
        /\ Named(p)
        /\ last.env.pageToken # p.token
        /\ last.env.k > 0
        /\ last.errs = <<INCONSISTENT_LIST_ID>>
        /\ p \in pending

\* C29: a response without items that names a pending request is a failed
\* attempt of it also when its page token is not the request's: exactly
\* MISSING_LIST_ITEMS, and within the budget a retry with the next
\* correlation token and the request's page token. A response that then
\* comes with the earlier correlation token and the request's page token is
\* accepted, and no request for that frontier is left to time out.
C29_EmptyResponseRetries ==
    \A p \in last.pre.pending :
        /\ (Named(p) /\ last.env.k = 0 /\ last.env.pageToken # p.token /\ CanRetry(p)) =>
              /\ ~last.ret
              /\ last.errs = <<MISSING_LIST_ITEMS>>
              /\ last.sent = <<[listId |-> p.listId, corr |-> last.pre.nextCorr,
                                pageToken |-> p.token]>>
              /\ \E q \in pending : /\ q.corr = last.pre.nextCorr
                                    /\ q.listId = p.listId
                                    /\ q.dir = p.dir
                                    /\ q.token = p.token
                                    /\ q.retries = p.retries + 1
                                    /\ q.remaining = FetchTimeout
              /\ \A q \in pending : q.corr # p.corr
        /\ (/\ IsUpdate /\ last.env.k > 0
            /\ p.retries > 0
            /\ last.env.listId = p.listId
            /\ last.env.pageToken = p.token
            /\ last.env.corr < p.corr
            /\ Issued(last.env.corr, p.listId, p.token)) =>
              /\ last.ret
              /\ SplicedInto(p.listId)
              /\ PendingOf(pending, p.listId, p.dir) = {}

\* The call of EmptyLazyResponseRetryResolved: the first request answered
\* without items under the seed's page token.
C29_Witness ==
    \E p \in last.pre.pending :
        /\ Named(p)
        /\ p.retries = 0
        /\ p.token = ForwardSeedToken
        /\ last.env.k = 0
        /\ last.env.pageToken = SeedPageToken
        /\ last.errs = <<MISSING_LIST_ITEMS>>
        /\ Len(last.sent) = 1
        /\ last.sent[1].corr = p.corr + 1

\* The later call of that test: the page comes with the first correlation
\* token while the retry is pending.
C29_Resolved ==
    \E p \in last.pre.pending :
        /\ IsUpdate /\ last.ret
        /\ p.retries = 1
        /\ last.env.corr = p.corr - 1
        /\ last.env.pageToken = p.token
        /\ pending = {}

-----------------------------------------------------------------------------
(* The fetches of a new list *)

FetchEvent(L, c, tok) == [listId |-> L, corr |-> c, pageToken |-> tok]

\* C30 as stated: a new list fetches forward if its seed has a
\* forwardPageToken and backward if it has a backwardPageToken; with both
\* the forward event comes first and the backward one has the next token.
C30_Original ==
    (IsCreate /\ last.ret) =>
        LET L == last.env.listId
            seed == last.env.seed
            c == last.pre.nextCorr
        IN  last.sent =
              (IF seed.fwd # NoToken THEN <<FetchEvent(L, c, seed.fwd)>> ELSE <<>>)
              \o (IF seed.bwd # NoToken
                  THEN <<FetchEvent(L, IF seed.fwd # NoToken THEN c + 1 ELSE c, seed.bwd)>>
                  ELSE <<>>)

\* C30: a new list with items fetches at creation at the frontiers that have
\* a token and lie within cacheChunkSize of its first item: the backward one
\* always, the forward one if the seed is shorter than cacheChunkSize; the
\* forward event comes first and the correlation tokens follow the counter,
\* 101 and 102 in a fresh provider. A new list without items fetches forward
\* first if its seed has a forwardPageToken.
C30_CreationFetches ==
    (IsCreate /\ last.ret) =>
        LET L == last.env.listId
            seed == last.env.seed
            c == last.pre.nextCorr
            fwd == seed.fwd # NoToken /\ seed.n < CacheChunkSize
        IN  IF seed.n > 0
            THEN last.sent =
                   (IF fwd THEN <<FetchEvent(L, c, seed.fwd)>> ELSE <<>>)
                   \o (IF seed.bwd # NoToken
                       THEN <<FetchEvent(L, IF fwd THEN c + 1 ELSE c, seed.bwd)>>
                       ELSE <<>>)
            ELSE seed.fwd # NoToken =>
                    /\ last.sent # <<>>
                    /\ last.sent[1] = FetchEvent(L, c, seed.fwd)

\* The pager's list in a fresh provider: its one fetch at creation is the
\* backward one, with 101.
C30_Witness ==
    /\ IsCreate
    /\ last.ret
    /\ last.env.seed = BASIC_PAGER_DATA
    /\ last.sent = <<FetchEvent(last.env.listId, FirstCorrelationToken, BackwardSeedToken)>>

\* The list of the Basic test in a fresh provider: 101 forward, 102 backward.
C30_Basic ==
    /\ IsCreate
    /\ last.env.seed = DATA
    /\ last.sent = <<FetchEvent(last.env.listId, FirstCorrelationToken, ForwardSeedToken),
                     FetchEvent(last.env.listId, FirstCorrelationToken + 1, BackwardSeedToken)>>

\* The pager's forward fetch: sent as its last page is shown, after the
\* backward page.
C30_PagerForward ==
    /\ last.op = "scroll"
    /\ last.sent # <<>>
    /\ last.sent[1].pageToken = ForwardSeedToken
    /\ last.sent[1].corr > FirstCorrelationToken
    /\ \E L \in live : /\ Len(lists[L].items) > CacheChunkSize + 1
                       /\ lists[L].items[1] = <<BackwardSeedToken, 1>>

-----------------------------------------------------------------------------
(* The scheduler after creation *)

\* The last call was a pass of the scheduler: a layout, a movement of the
\* viewport, or an accepted update.
IsScheduling == last.op \in {"layout", "scroll"} \/ (IsUpdate /\ last.ret)

\* The requests the last call created.
NewRequests == {p \in pending : p.corr >= last.pre.nextCorr}

\* C32: a fetch sent on a layout, a movement of the viewport or an accepted
\* update goes to a frontier that is open, had no request pending and lies
\* within cacheChunkSize items of the shown item, and it carries the
\* frontier's token; after a layout or movement every open frontier that is
\* near has a request, so a follow-on fetch with a response's nextPageToken
\* is sent exactly if the frontier is still near.
C32_FetchNearEnd ==
    /\ IsScheduling =>
          \A p \in NewRequests :
              /\ p.token # NoToken
              /\ p.token = FrontierToken(lists[p.listId], p.dir)
              /\ PendingOf(last.pre.pending, p.listId, p.dir) = {}
              /\ NearEnd(lists[p.listId], p.dir, lists[p.listId].view)
              /\ p.retries = 0
    /\ last.op \in {"layout", "scroll"} =>
          \A L \in live, d \in Dirs :
              (/\ Len(lists[L].items) > 0
               /\ FrontierToken(lists[L], d) # NoToken
               /\ d \notin lists[L].abandoned
               /\ NearEnd(lists[L], d, lists[L].view)) => PendingOf(pending, L, d) # {}

\* The layout of the Basic test after both pages: the backward frontier is
\* near and is fetched with the response's nextPageToken, the forward one
\* has its nextPageToken too but is too far and is not.
C32_Witness ==
    \E L \in live :
        /\ last.op = "layout"
        /\ Len(last.sent) = 1
        /\ last.sent[1].pageToken = NextToken[BackwardSeedToken]
        /\ lists[L].bwd = NextToken[BackwardSeedToken]
        /\ lists[L].fwd = NextToken[ForwardSeedToken]
        /\ PendingOf(pending, L, Forward) = {}
        /\ ~NearEnd(lists[L], Forward, lists[L].view)

\* C33: an envelope without correlationToken that carries items for the
\* current backward frontier token of its list is accepted: the page is
\* prepended, no backward request of the list stays pending, and the
\* frontier takes the response's nextPageToken; the backward fetch a later
\* layout or movement emits has the next unused correlation token and the
\* backward frontier's token.
C33_UncorrelatedBackward ==
    /\ (/\ IsUncorrelated
        /\ last.env.listId \in live
        /\ last.env.k > 0
        /\ last.env.pageToken = last.pre.lists[last.env.listId].bwd) =>
          /\ last.ret
          /\ Prepended(last.env.listId)
          /\ PendingOf(pending, last.env.listId, Backward) = {}
          /\ lists[last.env.listId].bwd = EnvelopeNext
    /\ last.op \in {"layout", "scroll"} =>
          \A p \in NewRequests :
              p.dir = Backward =>
                  /\ p.token = lists[p.listId].bwd
                  /\ p.corr = last.pre.nextCorr
                              + Cardinality({q \in NewRequests : q.dir = Forward})
                  /\ last.sent[Len(last.sent)] = FetchEvent(p.listId, p.corr, p.token)

\* FIVE_TO_NINE_FOLLOWUP_PAGER in BasicPager: the seed's backward token was
\* requested, the page arrives without correlationToken and names a
\* nextPageToken, which becomes the backward frontier.
C33_Witness ==
    /\ IsUncorrelated
    /\ last.ret
    /\ last.env.next
    /\ last.env.pageToken = BackwardSeedToken
    /\ PendingOf(last.pre.pending, last.env.listId, Backward) # {}
    /\ PendingOf(pending, last.env.listId, Backward) = {}
    /\ lists[last.env.listId].bwd = NextToken[BackwardSeedToken]
    /\ lists[last.env.listId].baseIndex = 0 - PageSize

\* The fetch of BasicPager after that page: the viewport moves to the first
\* item and the response's nextPageToken is requested.
C33_FollowOn ==
    /\ last.op = "scroll"
    /\ \E p \in NewRequests :
          /\ p.dir = Backward
          /\ p.token = NextToken[BackwardSeedToken]
          /\ p.corr = last.pre.nextCorr

\* The tokens of the pages a frontier may have accepted, and the token the
\* frontier has by what it accepted: the successor of the token of the page
\* at its end of items, or the seed's token if it accepted none.
PageTokensOf(d) == IF d = Forward THEN {"F0", "F1"} ELSE {"B0"}
EndPage(ls, d) == IF d = Forward THEN ls.items[Len(ls.items)][1] ELSE ls.items[1][1]
AcceptedPages(ls, d) == {ls.items[i][1] : i \in DOMAIN ls.items} \cap PageTokensOf(d)
TokenByHistory(ls, d) ==
    IF AcceptedPages(ls, d) = {}
    THEN IF d = Forward THEN ForwardSeedToken ELSE BackwardSeedToken
    ELSE NextToken[EndPage(ls, d)]

\* C34: every fetch event a call emits has the listId of a bound list, a
\* correlation token no earlier event had, and the page token its list's
\* frontier has for the direction, which is the nextPageToken of the last
\* page accepted there or the seed's token; the request created with it
\* holds the same list, correlation token and page token.
C34_EventCarriesFrontierToken ==
    \A i \in DOMAIN last.sent :
        LET ev == last.sent[i]
        IN  /\ ev.listId \in live
            /\ ev.corr = last.pre.nextCorr + i - 1
            /\ \A j \in DOMAIN PreEvents : PreEvents[j].corr < ev.corr
            /\ \E p \in pending :
                  /\ p.corr = ev.corr
                  /\ p.listId = ev.listId
                  /\ p.token = ev.pageToken
                  /\ ev.pageToken = FrontierToken(lists[p.listId], p.dir)
                  /\ ev.pageToken = TokenByHistory(lists[p.listId], p.dir)

\* WithLastOneWay: a forward page was accepted and the next forward fetch
\* carries its nextPageToken.
C34_Witness ==
    /\ last.op \in {"layout", "scroll"}
    /\ \E i \in DOMAIN last.sent :
          /\ last.sent[i].pageToken = NextToken[ForwardSeedToken]
          /\ \E p \in pending :
                /\ p.corr = last.sent[i].corr
                /\ p.dir = Forward
                /\ EndPage(lists[p.listId], Forward) = ForwardSeedToken

\* A frontier the scheduler has to fetch for, judged by that frontier alone.
Schedulable(ls, d) ==
    /\ Len(ls.items) > 0
    /\ FrontierToken(ls, d) # NoToken
    /\ d \notin ls.abandoned
    /\ NearEnd(ls, d, ls.view)

\* The frontiers the envelope of the last call is a page for: the envelope
\* names a bound list and that frontier's token, and either answers a pending
\* request of that frontier or has no correlationToken.
Answered ==
    IF last.env.listId \in last.pre.live
    THEN {d \in Dirs :
            /\ last.env.pageToken = FrontierToken(last.pre.lists[last.env.listId], d)
            /\ \/ last.env.corr = NoCorr
               \/ \E p \in PendingOf(last.pre.pending, last.env.listId, d) :
                      p.corr = last.env.corr /\ p.token = last.env.pageToken}
    ELSE {}

\* C35: the frontiers of a list do not depend on each other. After a layout
\* or a movement of the viewport every frontier that is open, not given up
\* and near has a request, whatever the state of the other frontier; a page
\* for a frontier is accepted whatever the state of the other frontier, and
\* leaves the other frontier's token, requests and given-up mark as they
\* were.
C35_IndependentFrontiers ==
    /\ last.op \in {"layout", "scroll"} =>
          \A L \in live, d \in Dirs :
              Schedulable(lists[L], d) => PendingOf(pending, L, d) # {}
    /\ (IsUpdate /\ last.env.k > 0) =>
          \A d \in Answered :
              LET L == last.env.listId
                  o == Opposite(d)
              IN  /\ last.ret
                  /\ SplicedInto(L)
                  /\ FrontierToken(lists[L], o) = FrontierToken(last.pre.lists[L], o)
                  /\ PendingOf(last.pre.pending, L, o) \subseteq pending
                  /\ (o \in lists[L].abandoned) = (o \in last.pre.lists[L].abandoned)

\* WithFirst: the forward frontier was closed by a page without
\* nextPageToken, then the backward page is accepted.
C35_Witness ==
    \E L \in live :
        /\ AcceptedBackward(L)
        /\ Prepended(L)
        /\ last.pre.lists[L].fwd = NoToken
        /\ HasPage(last.pre.lists[L], ForwardSeedToken)
        /\ last.env.corr # NoCorr
        /\ Answered = {Backward}

\* WithFirst, next step: with the forward frontier closed, the viewport
\* moves and the backward frontier is fetched.
C35_ScheduledBesideClosed ==
    /\ last.op \in {"layout", "scroll"}
    /\ \E p \in NewRequests : p.dir = Backward /\ lists[p.listId].fwd = NoToken

\* A page is accepted on one frontier while the other was given up.
C35_AcceptedBesideAbandoned ==
    /\ IsUpdate /\ last.ret
    /\ \E d \in Answered : Opposite(d) \in lists[last.env.listId].abandoned

\* A frontier is fetched while the other has a request in flight.
C35_ScheduledBesidePending ==
    /\ last.op \in {"layout", "scroll"}
    /\ \E p \in NewRequests : PendingOf(last.pre.pending, p.listId, Opposite(p.dir)) # {}

\* The last call accepted a page for frontier d of list L.
AcceptedAt(L, d) ==
    /\ IsUpdate /\ last.ret
    /\ ItemsChanged(L)
    /\ last.env.pageToken = FrontierToken(last.pre.lists[L], d)

C36_OtherFrontierFetched ==
    /\ last.op \in {"layout", "scroll"}
    /\ \E p \in NewRequests :
          /\ Opposite(p.dir) \in lists[p.listId].abandoned
          /\ Len(last.sent) = 1

-----------------------------------------------------------------------------
(* The scroll position of the Sequence *)

\* The place of a child among the children, its offset on the screen, and
\* the child at the top of the viewport.
ChildIndex(ls, c) == CHOOSE i \in 1..Len(ls.children) : ls.children[i] = c
OnScreen(ls, c) == ItemHeight * (ChildIndex(ls, c) - 1) - ls.scroll
TopChild(ls) == ls.children[(ls.scroll \div ItemHeight) + 1]

C37_FirstItemOnTop ==
    \E L \in live :
        /\ AcceptedBackward(L)
        /\ lists[L].doc = FIRST_AND_LAST
        /\ last.pre.lists[L].scroll = 0
        /\ lists[L].scroll = 0
        /\ OnScreen(lists[L], last.pre.lists[L].items[1])
              = OnScreen(last.pre.lists[L], last.pre.lists[L].items[1])
                + ItemHeight * PageSize

\* The same page after the viewport moved: the first child, the firstItem,
\* does not keep its offset on the screen.
C37_FirstChildMoves ==
    \E L \in live :
        /\ AcceptedBackward(L)
        /\ lists[L].doc = FIRST_AND_LAST
        /\ OnScreen(lists[L], FirstItem) # OnScreen(last.pre.lists[L], FirstItem)

\* WithLastOneWay: a forward page with the viewport moved.
C37_ForwardKeeps ==
    \E L \in live :
        /\ AcceptedForward(L)
        /\ lists[L].scroll = last.pre.lists[L].scroll
        /\ lists[L].scroll > 0

-----------------------------------------------------------------------------
(* Timers and responses in any order *)

\* No item of the list occurs twice.
NoItemTwice(ls) ==
    \A i, j \in DOMAIN ls.items : ls.items[i] = ls.items[j] => i = j

\* C38: whatever the order of timeouts, retries and responses, original, late
\* or repeated, a page is spliced once: no item is twice in a list, a page
\* is accepted only for the current token of a frontier and not if its items
\* are in the list, and a frontier's token is never that of a page already
\* in the list.
C38_SplicedOnce ==
    \A L \in ListIds :
        /\ NoItemTwice(lists[L])
        /\ \A d \in Dirs :
              FrontierToken(lists[L], d) # NoToken
                  => ~HasPage(lists[L], FrontierToken(lists[L], d))
        /\ (IsUpdate /\ last.ret /\ ItemsChanged(L)) =>
              /\ ~HasPage(last.pre.lists[L], last.env.pageToken)
              /\ \E d \in Dirs :
                    /\ FrontierToken(last.pre.lists[L], d) = last.env.pageToken
                    /\ FrontierToken(lists[L], d) # last.env.pageToken

\* LazyResponseTimeoutResolvedAfterDelayed: the request timed out and was
\* retried, the first response was accepted late, and now the response to
\* the retry brings the same page and is rejected.
C38_Witness ==
    \E L \in live :
        /\ IsUpdate /\ ~last.ret
        /\ last.env.k > 0
        /\ last.env.listId = L
        /\ last.errs = <<INTERNAL_ERROR>>
        /\ HasPage(lists[L], last.env.pageToken)
        /\ lists[L].items = last.pre.lists[L].items
        /\ EventsFor(events, L, last.env.pageToken) >= 2
        /\ Issued(last.env.corr, L, last.env.pageToken)
        /\ last.env.corr > FirstCorrelationToken

-----------------------------------------------------------------------------
(* A host that never answers *)

\* Lists with one frontier to fetch for: the host creates them, moves the
\* viewport and reads the errors, and sends no response; the loop lets the
\* time pass and runs the timers that are due.
QuietSeeds == {SMALLER_DATA, SMALLER_DATA_BACK, EMPTY}

NextQuiet ==
    \/ \E L \in ListIds, seed \in QuietSeeds : CreateList(L, seed)
    \/ \E req \in pending : Timeout(req)
    \/ \E L \in ListIds, idx \in 0..SeedSize : ScrollTo(L, idx)
    \/ DrainErrors
    \/ AdvanceTime

SpecQuiet ==
    /\ Init
    /\ [][NextQuiet]_vars
    /\ WF_vars(AdvanceTime)
    /\ WF_vars(\E req \in pending : Timeout(req))

\* No page token of a list was requested more often than fetchRetries + 1 times.
AttemptsBounded ==
    \A L \in ListIds, tok \in PageTokens : EventsFor(events, L, tok) <= FetchRetries + 1

\* A step of a provider that has given up and has no request left emits no
\* event and creates no request, and queues an error only for a call of the
\* host.
QuietStep ==
    (pending = {} /\ \E L \in live : lists[L].abandoned # {}) =>
        /\ events' = events
        /\ pending' = {}
        /\ Len(errors') > Len(errors) => last'.op = "create"

\* C39: if time passes and due timers run, and the host never answers, every
\* request is removed in the end and none comes after it; a page token is
\* requested at most fetchRetries + 1 times; and once the last request is
\* given up, no event is emitted and no error is queued but for a call of the
\* host.
C39_RequestsEnd ==
    /\ []AttemptsBounded
    /\ (pending # {}) ~> [](pending = {})
    /\ [][QuietStep]_vars

\* LazyResponseTimeout at time 300: three events for the page token, the
\* frontier given up, no request and no timer left.
C39_Witness ==
    \E L \in live :
        /\ pending = {}
        /\ last.op = "timeout"
        /\ last.req.retries = FetchRetries
        /\ EventsFor(events, L, last.req.token) = FetchRetries + 1
        /\ last.sent = <<>>
        /\ last.req.dir \in lists[L].abandoned

-----------------------------------------------------------------------------
(* Several lists in one provider *)

\* The list the last update, timeout or retry was about, and the requests
\* of a list.
Concerned ==
    IF IsUpdate THEN GetConnection(last.pre.pending, last.env) ELSE last.req.listId
RequestsOf(pend, L) == {p \in pend : p.listId = L}

\* C40: an update, a timeout or a retry for one list leaves every other
\* list as it was, items, baseIndex, frontier tokens and given-up marks, and
\* leaves the other lists' requests with their retry counters and timers,
\* and emits no event for another list; the correlation counter and the
\* error queue are the provider's.
C40_OtherListsUntouched ==
    (IsUpdate \/ last.op = "timeout") =>
        /\ \A B \in AllListIds \ {Concerned} :
              /\ lists[B] = last.pre.lists[B]
              /\ RequestsOf(pending, B) = RequestsOf(last.pre.pending, B)
              /\ \A i \in DOMAIN last.sent : last.sent[i].listId # B
        /\ nextCorr = last.pre.nextCorr + Len(last.sent)
        /\ errors = last.pre.errors \o last.errs

\* Two lists wait for the same page token in the same direction; the page
\* for one is accepted and the other's request stays.
C40_Witness ==
    \E A, B \in live :
        /\ A # B
        /\ IsUpdate /\ last.ret
        /\ Concerned = A
        /\ ItemsChanged(A)
        /\ \E p \in RequestsOf(pending, B) : p.token = last.env.pageToken
        /\ lists[B] = last.pre.lists[B]

\* A retry for one list takes the correlation token after the other list's.
C40_SharedCounter ==
    \E A, B \in live :
        /\ A # B
        /\ last.op = "timeout"
        /\ Concerned = A
        /\ Len(last.sent) = 1
        /\ \E p \in RequestsOf(pending, B) : last.sent[1].corr = p.corr + 1
        /\ last.errs = <<LOAD_TIMEOUT>>

====
